---- MODULE Spec2Model ----
(***************************************************************************)
(* Model of the upload handler of FinDocAI (src/unnamed/part_000): the     *)
(* validation/sanitisation pass over the LLM response (lines 337-409) and  *)
(* the stages of one upload request around it (lines 145-479).             *)
(*                                                                         *)
(* JavaScript values are records [t, k, n, s]: t is the typeof tag, k a    *)
(* sub-kind, n a number payload and s a string payload.  Strings are       *)
(* sequences of one-character strings.  Finite numbers are fixed-point,    *)
(* counted in hundredths (42.5 is 4250).  A Date object is a record        *)
(* [valid, day, ms]: day is the day number since 1970-01-01 (UTC) and ms   *)
(* the millisecond within that day.                                        *)
(***************************************************************************)
EXTENDS Integers, Sequences, FiniteSets, TLC

VARIABLES
  now,               \* the clock new Date() reads
  pc,                \* per request: the await the handler is suspended at
  mime,              \* per request: file.mimetype
  raw,               \* per request: the text the OCR engine reads in the file
  worker,            \* per request: the OCR worker of extractTextFromFile
  workersMade,       \* the number of OCR workers createWorker has made
  stages,            \* per request: the stages that have ended, in order
  creates,           \* per request: the prisma.document.create calls made
  lookups,           \* per request: the prisma.category calls made
  text,              \* per request: the extracted text
  llmResponse,       \* per request: the LLM response as it was received
  analysis,          \* per request: the handler's analysis object
  defaultUser,       \* per request: the id of the handler's defaultUser
  defaultCategory,   \* per request: the id of the handler's defaultCategory
  validTransactions, \* per request: the handler's validTransactions
  skipWarnings,      \* per request: invalid-amount warnings logged
  validated,         \* per request: the validation pass has run to its end
  document,          \* per request: the handler's document
  response,          \* per request: the HTTP response sent
  users,             \* Persistence Store: User rows
  categories,        \* Persistence Store: Category rows
  documents          \* Persistence Store: Document rows with their Transactions

vars == <<now, pc, mime, raw, worker, workersMade, stages, creates, lookups,
          text, llmResponse, analysis, defaultUser, defaultCategory,
          validTransactions, skipWarnings, validated, document, response,
          users, categories, documents>>

(***************************************************************************)
(* JavaScript values                                                       *)
(***************************************************************************)
Undef == [t |-> "undefined", k |-> "", n |-> 0, s |-> <<>>]
Null == [t |-> "object", k |-> "null", n |-> 0, s |-> <<>>]
Obj == [t |-> "object", k |-> "plain", n |-> 0, s |-> <<>>]
Bool(b) == [t |-> "boolean", k |-> "", n |-> IF b THEN 1 ELSE 0, s |-> <<>>]
Num(h) == [t |-> "number", k |-> "fin", n |-> h, s |-> <<>>]
NaN == [t |-> "number", k |-> "nan", n |-> 0, s |-> <<>>]
PosInf == [t |-> "number", k |-> "inf", n |-> 1, s |-> <<>>]
NegInf == [t |-> "number", k |-> "inf", n |-> -1, s |-> <<>>]
Str(q) == [t |-> "string", k |-> "", n |-> 0, s |-> q]

\* a decimal literal with two fractional digits, in hundredths
Dec(int, frac) == int * 100 + frac

Min(a, b) == IF a < b THEN a ELSE b

\* the string of c repeated len times
Rep(c, len) == [i \in 1..len |-> c]

Digits == <<"0", "1", "2", "3", "4", "5", "6", "7", "8", "9">>
IsDigit(c) == \E i \in 1..10 : Digits[i] = c
DigitVal(c) == (CHOOSE i \in 1..10 : Digits[i] = c) - 1
DigitChar(d) == Digits[d + 1]

\* decimal digits of a natural number
RECURSIVE NatStr(_)
NatStr(x) == IF x < 10 THEN <<DigitChar(x)>>
             ELSE NatStr(x \div 10) \o <<DigitChar(x % 10)>>

\* Number::toString of a finite fixed-point number
FinStr(h) ==
  LET a == IF h < 0 THEN -h ELSE h
      ip == a \div 100
      fp == a % 100
      frac == IF fp = 0 THEN <<>>
              ELSE IF fp % 10 = 0 THEN <<".", DigitChar(fp \div 10)>>
              ELSE <<".", DigitChar(fp \div 10), DigitChar(fp % 10)>>
  IN (IF h < 0 THEN <<"-">> ELSE <<>>) \o NatStr(ip) \o frac

\* String(v)
ToStr(v) ==
  CASE v.t = "string" -> v.s
    [] v.t = "undefined" -> <<"u", "n", "d", "e", "f", "i", "n", "e", "d">>
    [] v.t = "boolean" -> IF v.n = 1 THEN <<"t", "r", "u", "e">>
                          ELSE <<"f", "a", "l", "s", "e">>
    [] v.t = "number" /\ v.k = "fin" -> FinStr(v.n)
    [] v.t = "number" /\ v.k = "nan" -> <<"N", "a", "N">>
    [] v.t = "number" /\ v.k = "inf" ->
         (IF v.n < 0 THEN <<"-">> ELSE <<>>)
           \o <<"I", "n", "f", "i", "n", "i", "t", "y">>
    [] v.t = "object" /\ v.k = "null" -> <<"n", "u", "l", "l">>
    [] OTHER -> <<"[", "o", "b", "j", "e", "c", "t", " ",
                  "O", "b", "j", "e", "c", "t", "]">>

\* ToBoolean(v)
Truthy(v) ==
  CASE v.t = "undefined" -> FALSE
    [] v.t = "boolean" -> v.n = 1
    [] v.t = "number" -> ~(v.k = "nan" \/ (v.k = "fin" /\ v.n = 0))
    [] v.t = "string" -> Len(v.s) > 0
    [] v.t = "object" -> v.k # "null"
    [] OTHER -> TRUE

\* the global isNaN applied to a number value
IsNaN(v) == v.t = "number" /\ v.k = "nan"

\* the length of the longest run of digits of q that starts at index i
RECURSIVE DigitRun(_, _)
DigitRun(q, i) == IF i <= Len(q) /\ IsDigit(q[i]) THEN 1 + DigitRun(q, i + 1) ELSE 0

\* the natural number written by the digits q[i .. i+len-1]
RECURSIVE DigitsVal(_, _, _)
DigitsVal(q, i, len) ==
  IF len = 0 THEN 0
  ELSE DigitsVal(q, i, len - 1) * 10 + DigitVal(q[i + len - 1])

\* parseFloat(v): the longest decimal prefix of String(v), NaN when there is
\* none.  Fractional digits beyond the second are cut (fixed-point numbers).
ParseFloat(v) ==
  LET q == ToStr(v)
      neg == Len(q) >= 1 /\ q[1] = "-"
      st == IF Len(q) >= 1 /\ (q[1] = "-" \/ q[1] = "+") THEN 2 ELSE 1
      il == DigitRun(q, st)
      dot == st + il <= Len(q) /\ q[st + il] = "."
      fl == IF dot THEN DigitRun(q, st + il + 1) ELSE 0
      iv == DigitsVal(q, st, il)
      f1 == IF fl >= 1 THEN DigitVal(q[st + il + 1]) ELSE 0
      f2 == IF fl >= 2 THEN DigitVal(q[st + il + 2]) ELSE 0
      mag == iv * 100 + f1 * 10 + f2
  IN IF il + fl = 0 THEN NaN ELSE Num(IF neg THEN -mag ELSE mag)

(***************************************************************************)
(* Dates: Date objects, Date.parse of the date-only ISO form, toISOString  *)
(***************************************************************************)
MsPerDay == 24 * 60 * 60 * 1000

InvalidDate == [valid |-> FALSE, day |-> 0, ms |-> 0]
DateAt(d, m) == [valid |-> TRUE, day |-> d, ms |-> m]

\* MakeDay: the day number of year y, month m, day-of-month d; a day-of-month
\* past the end of the month runs over into the next month
DaysFromCivil(y, m, d) ==
  LET yy == IF m <= 2 THEN y - 1 ELSE y
      era == yy \div 400
      yoe == yy - era * 400
      mp == (m + 9) % 12
      doy == (153 * mp + 2) \div 5 + d - 1
      doe == yoe * 365 + yoe \div 4 - yoe \div 100 + doy
  IN era * 146097 + doe - 719468

\* YearFromTime, MonthFromTime, DateFromTime of a day number
CivilFromDays(z) ==
  LET zz == z + 719468
      era == zz \div 146097
      doe == zz - era * 146097
      yoe == (doe - doe \div 1460 + doe \div 36524 - doe \div 146096) \div 365
      doy == doe - (365 * yoe + yoe \div 4 - yoe \div 100)
      mp == (5 * doy + 2) \div 153
      d == doy - (153 * mp + 2) \div 5 + 1
      m == IF mp < 10 THEN mp + 3 ELSE mp - 9
  IN [y |-> yoe + era * 400 + (IF m <= 2 THEN 1 ELSE 0), m |-> m, d |-> d]

Pad2(x) == <<DigitChar(x \div 10), DigitChar(x % 10)>>
Pad4(x) == Pad2(x \div 100) \o Pad2(x % 100)

\* date.toISOString().split('T')[0]: the UTC calendar day as YYYY-MM-DD
ToISODate(date) ==
  LET c == CivilFromDays(date.day)
  IN Pad4(c.y) \o <<"-">> \o Pad2(c.m) \o <<"-">> \o Pad2(c.d)

\* Date.parse of a string, as Node's V8 does it for the date-only ISO form
\* YYYY-MM-DD: month 1..12 and day 1..31 parse (a day past the end of the
\* month runs over), everything else does not.  Strings of other shapes stand
\* in the input domain only for text V8 rejects.
ParseDate(q) ==
  IF /\ Len(q) = 10
     /\ q[5] = "-" /\ q[8] = "-"
     /\ \A i \in {1, 2, 3, 4, 6, 7, 9, 10} : IsDigit(q[i])
  THEN LET y == DigitsVal(q, 1, 4)
           m == DigitsVal(q, 6, 2)
           d == DigitsVal(q, 9, 2)
       IN IF m \in 1..12 /\ d \in 1..31
          THEN DateAt(DaysFromCivil(y, m, d), 0)
          ELSE InvalidDate
  ELSE InvalidDate

\* a time value in milliseconds as a Date
DateOfMs(x) == DateAt(x \div MsPerDay, x % MsPerDay)

\* new Date(v) with one argument: a string is parsed, anything else is
\* converted with ToNumber (undefined and objects give NaN, null gives 0,
\* booleans 0 or 1) and cut to whole milliseconds
NewDate(v) ==
  CASE v.t = "string" -> ParseDate(v.s)
    [] v.t = "number" /\ v.k = "fin" ->
         DateOfMs(IF v.n >= 0 THEN v.n \div 100 ELSE -((-v.n) \div 100))
    [] v.t = "boolean" -> DateOfMs(v.n)
    [] v.t = "object" /\ v.k = "null" -> DateOfMs(0)
    [] OTHER -> InvalidDate

(***************************************************************************)
(* The validation pass of the handler (lines 337-409).  A candidate is a   *)
(* record [amount, type, date, description] of JavaScript values; a key    *)
(* the LLM left out reads as undefined.                                    *)
(***************************************************************************)
INCOME == <<"I", "N", "C", "O", "M", "E">>
EXPENSE == <<"E", "X", "P", "E", "N", "S", "E">>
UnnamedDescription ==
  <<"U", "n", "n", "a", "m", "e", "d", " ",
    "t", "r", "a", "n", "s", "a", "c", "t", "i", "o", "n">>
DefaultDescription ==
  <<"D", "e", "f", "a", "u", "l", "t", " ",
    "t", "r", "a", "n", "s", "a", "c", "t", "i", "o", "n", " ",
    "(", "n", "o", " ", "v", "a", "l", "i", "d", " ",
    "t", "r", "a", "n", "s", "a", "c", "t", "i", "o", "n", "s", " ",
    "d", "e", "t", "e", "c", "t", "e", "d", ")">>
DescriptionLimit == 255
DefaultAmount == 100

\* the amount test without its NaN half
AmountIsValidTypeOnly(tx) == tx.amount.t = "number"

\* line 340: the filter keeps a candidate unless its amount is not of type
\* number or is NaN
AmountIsValid(tx) == ~(tx.amount.t # "number" \/ IsNaN(tx.amount))

\* lines 346-349: the filter overwrites a type that is neither of the two strings
FixType(tx) ==
  IF tx.type # Str(INCOME) /\ tx.type # Str(EXPENSE)
  THEN [tx EXCEPT !.type = Str(EXPENSE)]
  ELSE tx

\* lines 352-361: the filter overwrites a date that new Date() finds invalid
\* with today's UTC day as a YYYY-MM-DD string
FixDate(tx, clock) ==
  IF ~NewDate(tx.date).valid
  THEN [tx EXCEPT !.date = Str(ToISODate(clock))]
  ELSE tx

\* lines 364-367: the filter overwrites a falsy or non-string description
FixDescription(tx) ==
  IF ~Truthy(tx.description) \/ tx.description.t # "string"
  THEN [tx EXCEPT !.description = Str(UnnamedDescription)]
  ELSE tx

\* lines 338-370: the filter callback's effect on the candidate object it is
\* given: a dropped candidate is left as it is, a kept one is fixed in place
FilterCallback(tx, clock) ==
  IF ~AmountIsValid(tx) THEN tx
  ELSE FixDescription(FixDate(FixType(tx), clock))

\* lines 373-383: the date of the record built by the map callback
MapDate(tx, clock) ==
  LET date == NewDate(tx.date)
  IN IF ~date.valid THEN clock ELSE date

\* lines 386, 391: the amount of the record built by the map callback
MapAmount(tx) ==
  LET amount == IF tx.amount.t = "number" THEN tx.amount ELSE ParseFloat(tx.amount)
  IN IF IsNaN(amount) THEN Num(0) ELSE amount

\* the description without the cut to 255 characters
MapDescriptionUncut(tx) == ToStr(tx.description)

\* line 390: String(tx.description).substring(0, 255)
MapDescription(tx) ==
  LET q == ToStr(tx.description)
  IN SubSeq(q, 1, Min(Len(q), DescriptionLimit))

\* every record typed EXPENSE
MapTypeAlwaysExpense(tx) == EXPENSE

\* line 392
MapType(tx) == IF tx.type = Str(INCOME) THEN INCOME ELSE EXPENSE

\* the map callback with the default category only for a candidate that
\* names no category, and with no category otherwise
MapCallbackOwnCategory(tx, clock, categoryId, userId) ==
  [date |-> MapDate(tx, clock),
   description |-> MapDescription(tx),
   amount |-> MapAmount(tx),
   type |-> MapType(tx),
   categoryId |-> IF tx.category = Undef THEN categoryId ELSE 0,
   userId |-> userId]

\* lines 371-396: the map callback
MapCallback(tx, clock, categoryId, userId) ==
  [date |-> MapDate(tx, clock),
   description |-> MapDescription(tx),
   amount |-> MapAmount(tx),
   type |-> MapType(tx),
   categoryId |-> categoryId,
   userId |-> userId]

\* a default transaction with amount 0
DefaultTransactionZero(clock, categoryId, userId) ==
  [date |-> clock,
   description |-> DefaultDescription,
   amount |-> Num(0),
   type |-> EXPENSE,
   categoryId |-> categoryId,
   userId |-> userId]

\* lines 401-408: the default transaction
DefaultTransaction(clock, categoryId, userId) ==
  [date |-> clock,
   description |-> DefaultDescription,
   amount |-> Num(Dec(DefaultAmount, 0)),
   type |-> EXPENSE,
   categoryId |-> categoryId,
   userId |-> userId]

\* the candidate objects of analysis.transactions after the filter ran over
\* them (the callback writes into the objects of the array it filters)
CandidatesAfterFilter(batch, clock) ==
  [i \in 1..Len(batch) |-> FilterCallback(batch[i], clock)]

\* lines 337-370: the array the filter returns
Filtered(batch, clock) == SelectSeq(CandidatesAfterFilter(batch, clock), AmountIsValid)

\* filter, then map, the last candidate first
MappedReversed(batch, clock, categoryId, userId) ==
  LET kept == Filtered(batch, clock)
  IN [i \in 1..Len(kept) |->
        MapCallback(kept[Len(kept) + 1 - i], clock, categoryId, userId)]

\* lines 337-396: filter, then map
Mapped(batch, clock, categoryId, userId) ==
  LET kept == Filtered(batch, clock)
  IN [i \in 1..Len(kept) |-> MapCallback(kept[i], clock, categoryId, userId)]

\* no default transaction is pushed
EnsureOneSkipped(list, clock, categoryId, userId) == list

\* lines 398-409: a default transaction is pushed onto an empty list
EnsureOne(list, clock, categoryId, userId) ==
  IF Len(list) = 0
  THEN Append(list, DefaultTransaction(clock, categoryId, userId))
  ELSE list

\* the mapped list as it is, without the default transaction
ValidTransactionsUnchecked(batch, clock, categoryId, userId) ==
  Mapped(batch, clock, categoryId, userId)

\* lines 337-409: validTransactions as it is handed to document.create
ValidTransactions(batch, clock, categoryId, userId) ==
  EnsureOne(Mapped(batch, clock, categoryId, userId), clock, categoryId, userId)

\* line 341: the number of 'Skipping transaction with invalid amount' warnings
SkipWarnings(batch) == Cardinality({i \in 1..Len(batch) : ~AmountIsValid(batch[i])})

(***************************************************************************)
(* cleanText (lines 25-106).  A global replace scans the text from the     *)
(* left and, after a match, goes on behind the matched text.               *)
(***************************************************************************)
\* lines 27-84: the replacements object, its entries in the order
\* Object.entries gives them (the order they are written in)
replacements ==
  <<<<<<"o">>, <<"0">>>>,
   <<<<"O">>, <<"0">>>>,
   <<<<"l">>, <<"1">>>>,
   <<<<"L">>, <<"1">>>>,
   <<<<"s">>, <<"5">>>>,
   <<<<"S">>, <<"5">>>>,
   <<<<"g">>, <<"6">>>>,
   <<<<"G">>, <<"6">>>>,
   <<<<"t">>, <<"7">>>>,
   <<<<"T">>, <<"7">>>>,
   <<<<"b">>, <<"8">>>>,
   <<<<"B">>, <<"8">>>>,
   <<<<"q">>, <<"9">>>>,
   <<<<"Q">>, <<"9">>>>,
   <<<<"z">>, <<"2">>>>,
   <<<<"Z">>, <<"2">>>>,
   <<<<"8", "a", "n", "k">>, <<"B", "a", "n", "k">>>>,
   <<<<"8", "u", "5", "i", "n", "e", "5", "5">>, <<"B", "u", "s", "i", "n", "e", "s", "s">>>>,
   <<<<"A", "c", "c", "0", "u", "n", "7">>, <<"A", "c", "c", "o", "u", "n", "t">>>>,
   <<<<"5", "a", "7", "e", "m", "e", "n", "7">>, <<"S", "t", "a", "t", "e", "m", "e", "n", "t">>>>,
   <<<<"R", "0", "y", "a", "1">>, <<"R", "o", "y", "a", "l">>>>,
   <<<<"M", "0", "N", "7", "R", "E", "A", "1">>, <<"M", "o", "n", "t", "r", "e", "a", "l">>>>,
   <<<<"J", "u", "1", "y">>, <<"J", "u", "l", "y">>>>,
   <<<<"A", "u", "6", "u", "5", "7">>, <<"A", "u", "g", "u", "s", "t">>>>,
   <<<<"5", "7", "W">>, <<"S", "t", " ", "W">>>>,
   <<<<"0", "N">>, <<"O", "N">>>>,
   <<<<"M", "5", "V">>, <<"M", "S", "V">>>>,
   <<<<"P", "1", "e", "a", "5", "e">>, <<"P", "l", "e", "a", "s", "e">>>>,
   <<<<"c", "0", "n", "7", "a", "c", "7">>, <<"c", "o", "n", "t", "a", "c", "t">>>>,
   <<<<"8", "a", "n", "k", "i", "n", "6">>, <<"B", "a", "n", "k", "i", "n", "g">>>>,
   <<<<"r", "e", "p", "r", "e", "5", "e", "n", "7", "a", "7", "i", "v", "e">>, <<"r", "e", "p", "r", "e", "s", "e", "n", "t", "a", "t", "i", "v", "e">>>>,
   <<<<"c", "a", "1", "1">>, <<"c", "a", "l", "l">>>>,
   <<<<"A", "c", "c", "0", "u", "n", "7", "5", "u", "m", "m", "a", "r", "y">>, <<"A", "c", "c", "o", "u", "n", "t", " ", "S", "u", "m", "m", "a", "r", "y">>>>,
   <<<<"E", "5", "5", "e", "n", "7", "i", "a", "1", "5">>, <<"E", "s", "s", "e", "n", "t", "i", "a", "l", "s">>>>,
   <<<<"V", "a", "r", "i", "a", "8", "1", "e">>, <<"V", "a", "r", "i", "a", "b", "l", "e">>>>,
   <<<<"P", "r", "i", "c", "i", "n", "6">>, <<"P", "r", "i", "c", "i", "n", "g">>>>,
   <<<<"P", "E", "R", "7", "H">>, <<"P", "e", "r", "t", "h">>>>,
   <<<<"0", "p", "e", "n", "i", "n", "6">>, <<"O", "p", "e", "n", "i", "n", "g">>>>,
   <<<<"d", "e", "p", "0", "5", "i", "7", "5">>, <<"d", "e", "p", "o", "s", "i", "t", "s">>>>,
   <<<<"c", "r", "e", "d", "i", "7", "5">>, <<"c", "r", "e", "d", "i", "t", "s">>>>,
   <<<<"c", "h", "e", "9", "u", "e", "5">>, <<"c", "h", "e", "q", "u", "e", "s">>>>,
   <<<<"d", "e", "8", "i", "7", "5">>, <<"d", "e", "b", "i", "t", "s">>>>,
   <<<<"C", "1", "0", "5", "i", "n", "6">>, <<"C", "l", "o", "s", "i", "n", "g">>>>,
   <<<<"A", "c", "7", "i", "v", "i", "7", "y">>, <<"A", "c", "t", "i", "v", "i", "t", "y">>>>,
   <<<<"D", "e", "7", "a", "i", "1", "5">>, <<"D", "e", "t", "a", "i", "l", "s">>>>,
   <<<<"D", "e", "5", "c", "r", "i", "p", "7", "i", "0", "n">>, <<"D", "e", "s", "c", "r", "i", "p", "t", "i", "o", "n">>>>,
   <<<<"C", "h", "e", "9", "u", "e">>, <<"C", "h", "e", "q", "u", "e">>>>,
   <<<<"D", "e", "8", "i", "7">>, <<"D", "e", "b", "i", "t">>>>,
   <<<<"D", "e", "p", "0", "5", "i", "7">>, <<"D", "e", "p", "o", "s", "i", "t">>>>,
   <<<<"C", "r", "e", "d", "i", "7">>, <<"C", "r", "e", "d", "i", "t">>>>,
   <<<<"8", "a", "1", "a", "n", "c", "e">>, <<"B", "a", "l", "a", "n", "c", "e">>>>,
   <<<<"M", "i", "5", "c">>, <<"M", "i", "s", "c">>>>,
   <<<<"P", "a", "y", "m", "e", "n", "7">>, <<"P", "a", "y", "m", "e", "n", "t">>>>,
   <<<<"F", "E", "E", "5">>, <<"F", "E", "E">>>>,
   <<<<"I", "n", "5", "u", "r", "a", "n", "c", "e">>, <<"I", "n", "s", "u", "r", "a", "n", "c", "e">>>>,
   <<<<"5", "U", "N">>, <<"S", "U", "N">>>>,
   <<<<"1", "I", "F", "E">>, <<"L", "I", "F", "E">>>>,
   <<<<"R", "E", "6", "U", "1", "A", "R">>, <<"R", "E", "G", "U", "L", "A", "R">>>>,
   <<<<"C", "0", "M", "M", "E", "R", "C", "I", "A", "1">>, <<"C", "O", "M", "M", "E", "R", "C", "I", "A", "L">>>>,
   <<<<"I", "N", "5">>, <<"I", "N", "S">>>>,
   <<<<"F", "E", "D", "E", "R", "A", "7", "E", "D">>, <<"F", "E", "D", "E", "R", "A", "T", "E", "D">>>>,
   <<<<"I", "N", "5", "U", "R">>, <<"I", "N", "S", "U", "R">>>>>>

Letters ==
  {"A", "B", "C", "D", "E", "F", "G", "H", "I", "J", "K", "L", "M",
   "N", "O", "P", "Q", "R", "S", "T", "U", "V", "W", "X", "Y", "Z",
   "a", "b", "c", "d", "e", "f", "g", "h", "i", "j", "k", "l", "m",
   "n", "o", "p", "q", "r", "s", "t", "u", "v", "w", "x", "y", "z"}
DigitSet == {Digits[i] : i \in 1..10}
\* the characters \s matches that the OCR whitelist of line 112 or a line
\* break can put into the text
Spaces == {" ", "\t", "\n"}

\* the length of the longest run of characters of class at index i of q
RECURSIVE ClassRun(_, _, _)
ClassRun(q, i, class) ==
  IF i <= Len(q) /\ q[i] \in class THEN 1 + ClassRun(q, i + 1, class) ELSE 0

\* the literal pattern pat matches q at index i
MatchesAt(q, i, pat) ==
  /\ i + Len(pat) - 1 <= Len(q)
  /\ \A j \in 1..Len(pat) : q[i + j - 1] = pat[j]

\* line 88: text.replace(new RegExp(wrong, 'g'), correct) from index i on
RECURSIVE ReplaceFrom(_, _, _, _)
ReplaceFrom(q, i, wrong, correct) ==
  IF i > Len(q) THEN <<>>
  ELSE IF MatchesAt(q, i, wrong)
       THEN correct \o ReplaceFrom(q, i + Len(wrong), wrong, correct)
       ELSE <<q[i]>> \o ReplaceFrom(q, i + 1, wrong, correct)

ReplaceAll(q, wrong, correct) == ReplaceFrom(q, 1, wrong, correct)

\* lines 87-89: the entries of table from the e-th on, applied in order; no
\* pattern is empty, so none matches in an empty text
RECURSIVE ApplyFrom(_, _, _)
ApplyFrom(q, table, e) ==
  IF e > Len(table) \/ Len(q) = 0 THEN q
  ELSE ApplyFrom(ReplaceAll(q, table[e][1], table[e][2]), table, e + 1)

\* lines 87-89: Object.entries(replacements).forEach(...)
ApplyReplacements(q) == ApplyFrom(q, replacements, 1)

\* lines 92-95: replace(/(first)\s+(second)/g, '$1$2') from index i on
RECURSIVE CollapseFrom(_, _, _, _)
CollapseFrom(q, i, first, second) ==
  IF i > Len(q) THEN <<>>
  ELSE LET w == ClassRun(q, i + 1, Spaces)
       IN IF /\ q[i] \in first
             /\ w >= 1
             /\ i + w + 1 <= Len(q)
             /\ q[i + w + 1] \in second
          THEN <<q[i], q[i + w + 1]>> \o CollapseFrom(q, i + w + 2, first, second)
          ELSE <<q[i]>> \o CollapseFrom(q, i + 1, first, second)

\* the replace without the g flag: only the leftmost match is replaced
CollapseFirst(q, first, second) ==
  LET gap(i) == ClassRun(q, i + 1, Spaces)
      hits == {i \in 1..Len(q) : /\ q[i] \in first
                                 /\ gap(i) >= 1
                                 /\ i + gap(i) + 1 <= Len(q)
                                 /\ q[i + gap(i) + 1] \in second}
  IN IF hits = {} THEN q
     ELSE LET i == CHOOSE h \in hits : \A k \in hits : h <= k
          IN SubSeq(q, 1, i) \o SubSeq(q, i + gap(i) + 1, Len(q))

Collapse(q, first, second) == CollapseFrom(q, 1, first, second)

\* lines 92-95: the four spacing replaces, in order
FixSpacing(q) ==
  Collapse(Collapse(Collapse(Collapse(q, DigitSet, DigitSet),
                             {".", ","}, DigitSet),
                    Letters, DigitSet),
           DigitSet, Letters)

\* the length of the match of /(\d{1,2})\s+([A-Za-z]+),\s+(\d{4})/ at index
\* i of q and what replaces it; length 0 when there is no match there
DayMonthAt(q, i) ==
  LET dr == ClassRun(q, i, DigitSet)
      d == IF dr >= 2 THEN 2 ELSE dr
      w1 == ClassRun(q, i + d, Spaces)
      l == ClassRun(q, i + d + w1, Letters)
      c == i + d + w1 + l
      w2 == ClassRun(q, c + 1, Spaces)
      y == c + 1 + w2
  IN IF /\ d >= 1 /\ w1 >= 1 /\ l >= 1
        /\ c <= Len(q) /\ q[c] = ","
        /\ w2 >= 1
        /\ ClassRun(q, y, DigitSet) >= 4
     THEN [len |-> y + 4 - i,
           out |-> SubSeq(q, i, i + d - 1) \o <<" ">>
                     \o SubSeq(q, i + d + w1, c - 1) \o <<",", " ">>
                     \o SubSeq(q, y, y + 3)]
     ELSE [len |-> 0, out |-> <<>>]

\* the same for /([A-Za-z]+)\s+(\d{1,2}),\s+(\d{4})/
MonthDayAt(q, i) ==
  LET l == ClassRun(q, i, Letters)
      w1 == ClassRun(q, i + l, Spaces)
      d == ClassRun(q, i + l + w1, DigitSet)
      c == i + l + w1 + d
      w2 == ClassRun(q, c + 1, Spaces)
      y == c + 1 + w2
  IN IF /\ l >= 1 /\ w1 >= 1 /\ d >= 1 /\ d <= 2
        /\ c <= Len(q) /\ q[c] = ","
        /\ w2 >= 1
        /\ ClassRun(q, y, DigitSet) >= 4
     THEN [len |-> y + 4 - i,
           out |-> SubSeq(q, i, i + l - 1) \o <<" ">>
                     \o SubSeq(q, i + l + w1, c - 1) \o <<",", " ">>
                     \o SubSeq(q, y, y + 3)]
     ELSE [len |-> 0, out |-> <<>>]

\* the same for /(\d{a})\s*-\s*(\d{b})\s*-\s*(\d{c})/
GroupsAt(q, i, a, b, c) ==
  LET w1 == ClassRun(q, i + a, Spaces)
      h1 == i + a + w1
      w2 == ClassRun(q, h1 + 1, Spaces)
      g2 == h1 + 1 + w2
      w3 == ClassRun(q, g2 + b, Spaces)
      h2 == g2 + b + w3
      w4 == ClassRun(q, h2 + 1, Spaces)
      g3 == h2 + 1 + w4
  IN IF /\ ClassRun(q, i, DigitSet) >= a
        /\ h1 <= Len(q) /\ q[h1] = "-"
        /\ ClassRun(q, g2, DigitSet) >= b
        /\ h2 <= Len(q) /\ q[h2] = "-"
        /\ ClassRun(q, g3, DigitSet) >= c
     THEN [len |-> g3 + c - i,
           out |-> SubSeq(q, i, i + a - 1) \o <<"-">>
                     \o SubSeq(q, g2, g2 + b - 1) \o <<"-">>
                     \o SubSeq(q, g3, g3 + c - 1)]
     ELSE [len |-> 0, out |-> <<>>]

\* the match of the regular expression named kind at index i of q
MatchAt(q, i, kind) ==
  CASE kind = "dayMonth" -> DayMonthAt(q, i)
    [] kind = "monthDay" -> MonthDayAt(q, i)
    [] kind = "account433" -> GroupsAt(q, i, 4, 3, 3)
    [] OTHER -> GroupsAt(q, i, 3, 4, 4)

\* a global replace of the regular expression named kind from index i on
RECURSIVE RewriteFrom(_, _, _)
RewriteFrom(q, i, kind) ==
  IF i > Len(q) THEN <<>>
  ELSE LET m == MatchAt(q, i, kind)
       IN IF m.len > 0
          THEN m.out \o RewriteFrom(q, i + m.len, kind)
          ELSE <<q[i]>> \o RewriteFrom(q, i + 1, kind)

\* lines 98-99: the two date replaces
FixDates(q) == RewriteFrom(RewriteFrom(q, 1, "dayMonth"), 1, "monthDay")

\* lines 102-103: the two account-number replaces
FixAccountNumbers(q) == RewriteFrom(RewriteFrom(q, 1, "account433"), 1, "account344")

\* lines 25-106
cleanText(q) == FixAccountNumbers(FixDates(FixSpacing(ApplyReplacements(q))))


(***************************************************************************)
(* Inputs                                                                  *)
(***************************************************************************)
MaxBatch == 2

Requests == {"r1", "r2"}

Clocks == {DateAt(DaysFromCivil(2025, 6, 15), 12 * 60 * 60 * 1000),
           DateAt(DaysFromCivil(2024, 2, 29), 0)}

Amounts == {Num(Dec(42, 50)), Num(0), Num(-Dec(5, 0)), NaN, PosInf,
            Str(<<"4", "2", ".", "5">>), Str(<<"a", "b", "c">>), Undef, Null}
Types == {Str(INCOME), Str(EXPENSE), Str(<<"i", "n", "c", "o", "m", "e">>),
          Undef, Num(Dec(1, 0))}
Dates == {Str(<<"2", "0", "2", "4", "-", "0", "3", "-", "1", "5">>),
          Str(<<"2", "0", "2", "3", "-", "0", "2", "-", "3", "0">>),
          Str(<<"n", "o", "t", "-", "a", "-", "d", "a", "t", "e">>),
          Undef, Null, Num(Dec(12345, 0)), Obj}
Descriptions == {Str(<<"C", "o", "f", "f", "e", "e">>), Str(<<>>), Undef,
                 Num(Dec(7, 0)), Null,
                 Str(Rep("x", DescriptionLimit)), Str(Rep("x", DescriptionLimit + 1))}

\* the category the LLM names for a candidate: none, or a name
Groceries == Str(<<"G", "r", "o", "c", "e", "r", "i", "e", "s">>)
CandidateCategories == {Undef, Groceries}

\* every combination of the field values above
AllCandidates ==
  [amount : Amounts, type : Types, date : Dates, description : Descriptions,
   category : CandidateCategories]

\* a candidate without a category
Cand(a, ty, d, desc) ==
  [amount |-> a, type |-> ty, date |-> d, description |-> desc,
   category |-> Undef]

\* the candidate tx with a category
InCategory(tx, category) == [tx EXCEPT !.category = category]
GoodDate == Str(<<"2", "0", "2", "4", "-", "0", "3", "-", "1", "5">>)
Coffee == Str(<<"C", "o", "f", "f", "e", "e">>)

\* the candidates batches are built from
Candidates ==
  {InCategory(Cand(Num(Dec(42, 50)), Str(INCOME), GoodDate, Coffee), Groceries),
   InCategory(Cand(Num(-Dec(5, 0)), Str(EXPENSE), GoodDate, Coffee),
              Num(Dec(3, 0))),
   Cand(PosInf, Str(EXPENSE), GoodDate, Coffee),
   Cand(NaN, Str(INCOME), GoodDate, Coffee),
   Cand(Str(<<"4", "2", ".", "5">>), Str(INCOME), GoodDate, Coffee),
   Cand(Num(Dec(42, 50)), Str(<<"X", "Y", "Z">>),
        Str(<<"n", "o", "t", "-", "a", "-", "d", "a", "t", "e">>), Str(<<>>)),
   Cand(Num(Dec(7, 0)), Undef, Null, Str(Rep("x", DescriptionLimit + 1))),
   Cand(Undef, Undef, Undef, Undef)}

\* the sequences over S of length at most len
SeqsUpTo(S, len) == UNION {[1..k -> S] : k \in 0..len}

Batches == SeqsUpTo(Candidates, MaxBatch)

\* the texts the OCR engine reads in the uploaded images: none at all (a
\* blank page), and a garbled word
RawTexts == {<<>>, <<"8", "a", "n", "k">>}

\* an analysis object whose transactions field is the array batch
ArrayResponse(batch) == [isArray |-> TRUE, transactions |-> batch]
\* an analysis object whose transactions field is missing or no array
MalformedResponse == [isArray |-> FALSE, transactions |-> <<>>]
NoResponse == MalformedResponse

NoDocument == [id |-> 0, status |-> "", userId |-> 0, nested |-> FALSE,
               transactions |-> <<>>]
NoReply == [status |-> 0, error |-> "", cause |-> "", transactions |-> <<>>]

(***************************************************************************)
(* The upload handler, one action per await (lines 145-479).  A request    *)
(* starts with its form parsed and its input validated (lines 155-195).    *)
(***************************************************************************)
DefaultEmail == "default@example.com"
Uncategorized == "Uncategorized"

\* lines 259-263: prisma.user.findFirst by email
FindFirstUser == {u \in users : u.email = DefaultEmail}

\* lines 285-290: prisma.category.findFirst by name and userId
FindFirstCategory(userId) ==
  {c \in categories : c.name = Uncategorized /\ c.userId = userId}

\* line 445: the message of the error thrown when both creates have failed
PersistFailure == "Failed to save document and transactions to database"

\* lines 456-477: the catch of the handler answers 500
Abort(r, message, cause) ==
  /\ pc' = [pc EXCEPT ![r] = "failed"]
  /\ response' = [response EXCEPT ![r] =
                    [status |-> 500, error |-> message, cause |-> cause,
                     transactions |-> <<>>]]

\* lines 197-455: a stage of request r ends, with success or with a failure
StageEnds(r, stage, ok) ==
  stages' = [stages EXCEPT ![r] = Append(@, [stage |-> stage, ok |-> ok])]

\* lines 197-231: the uploads directory is made and the file written
SaveFile(r) ==
  /\ pc[r] = "received"
  /\ pc' = [pc EXCEPT ![r] = "stored"]
  /\ StageEnds(r, "store", TRUE)
  /\ UNCHANGED <<now, raw, lookups, worker, workersMade, creates,
                 mime, text, llmResponse, analysis, defaultUser,
                 defaultCategory, validTransactions, skipWarnings, validated,
                 document, response, users, categories, documents>>

\* the failure of mkdir or writeFile is logged and the handler goes on
SaveFileFailsGoesOn(r) ==
  /\ pc[r] = "received"
  /\ pc' = [pc EXCEPT ![r] = "stored"]
  /\ StageEnds(r, "store", FALSE)
  /\ UNCHANGED <<now, raw, lookups, worker, workersMade, creates,
                 mime, text, llmResponse, analysis, defaultUser,
                 defaultCategory, validTransactions, skipWarnings, validated,
                 document, response, users, categories, documents>>

\* lines 203-206, 228-231: mkdir or writeFile throws
SaveFileFails(r) ==
  /\ pc[r] = "received"
  /\ Abort(r, "Failed to save file", "")
  /\ StageEnds(r, "store", FALSE)
  /\ UNCHANGED <<now, raw, lookups, worker, workersMade, creates,
                 mime, text, llmResponse, analysis, defaultUser,
                 defaultCategory, validTransactions, skipWarnings, validated,
                 document, users, categories, documents>>

\* lines 135-139, 237: extractTextFromFile returns '' for a PDF
ExtractPdf(r) ==
  /\ pc[r] = "stored"
  /\ mime[r] = "pdf"
  /\ text' = [text EXCEPT ![r] = <<>>]
  /\ pc' = [pc EXCEPT ![r] = "extracted"]
  /\ StageEnds(r, "extract", TRUE)
  /\ UNCHANGED <<now, raw, lookups, worker, workersMade, creates,
                 mime, llmResponse, analysis, defaultUser,
                 defaultCategory, validTransactions, skipWarnings, validated,
                 document, response, users, categories, documents>>

\* lines 140-142, 239-242: the file is neither an image nor a PDF
ExtractUnsupported(r) ==
  /\ pc[r] = "stored"
  /\ mime[r] \notin {"image", "pdf"}
  /\ Abort(r, "Failed to extract text from document", "")
  /\ StageEnds(r, "extract", FALSE)
  /\ UNCHANGED <<now, raw, lookups, worker, workersMade, creates,
                 mime, text, llmResponse, analysis, defaultUser,
                 defaultCategory, validTransactions, skipWarnings, validated,
                 document, users, categories, documents>>

\* no worker: the value of worker before line 116
NoWorker == [id |-> 0, calls |-> <<>>, threw |-> FALSE, returns |-> <<>>]

\* line 116: createWorker() makes a new worker for this call
CreateWorker(r) ==
  /\ pc[r] = "stored"
  /\ mime[r] = "image"
  /\ workersMade' = workersMade + 1
  /\ worker' = [worker EXCEPT ![r] = [NoWorker EXCEPT !.id = workersMade + 1]]
  /\ pc' = [pc EXCEPT ![r] = "reinitialize"]
  /\ UNCHANGED <<now, raw, lookups, stages, creates,
                 mime, text, llmResponse, analysis, defaultUser,
                 defaultCategory, validTransactions, skipWarnings, validated,
                 document, response, users, categories, documents>>

\* lines 116, 239-242: createWorker() throws, before the try
CreateWorkerFails(r) ==
  /\ pc[r] = "stored"
  /\ mime[r] = "image"
  /\ Abort(r, "Failed to extract text from document", "")
  /\ StageEnds(r, "extract", FALSE)
  /\ UNCHANGED <<now, raw, lookups, worker, workersMade, creates,
                 mime, text, llmResponse, analysis, defaultUser,
                 defaultCategory, validTransactions, skipWarnings, validated,
                 document, users, categories, documents>>

\* lines 118-121: a method of the worker of r is called and returns
WorkerCall(r, method, next) ==
  /\ pc[r] = method
  /\ worker' = [worker EXCEPT ![r].calls = Append(@, method)]
  /\ pc' = [pc EXCEPT ![r] = next]
  /\ UNCHANGED <<now, raw, lookups, workersMade, stages, creates,
                 mime, text, llmResponse, analysis, defaultUser,
                 defaultCategory, validTransactions, skipWarnings, validated,
                 document, response, users, categories, documents>>

\* the catch throws anew and no finally block follows
WorkerCallThrowsNoFinally(r, method) ==
  /\ pc[r] = method
  /\ worker' = [worker EXCEPT ![r].calls = Append(@, method),
                              ![r].threw = TRUE]
  /\ Abort(r, "Failed to extract text from document", "")
  /\ StageEnds(r, "extract", FALSE)
  /\ UNCHANGED <<now, raw, lookups, workersMade, creates,
                 mime, text, llmResponse, analysis, defaultUser,
                 defaultCategory, validTransactions, skipWarnings, validated,
                 document, users, categories, documents>>

\* lines 118-121, 129-134: a method of the worker of r is called and throws;
\* the catch throws anew, and the finally block is next
WorkerCallThrows(r, method) ==
  /\ pc[r] = method
  /\ worker' = [worker EXCEPT ![r].calls = Append(@, method),
                              ![r].threw = TRUE]
  /\ pc' = [pc EXCEPT ![r] = "terminate"]
  /\ UNCHANGED <<now, raw, lookups, workersMade, stages, creates,
                 mime, text, llmResponse, analysis, defaultUser,
                 defaultCategory, validTransactions, skipWarnings, validated,
                 document, response, users, categories, documents>>

\* line 118
Reinitialize(r) == WorkerCall(r, "reinitialize", "setParameters")
ReinitializeFails(r) == WorkerCallThrows(r, "reinitialize")

\* line 119
SetParameters(r) == WorkerCall(r, "setParameters", "recognize")
SetParametersFails(r) == WorkerCallThrows(r, "setParameters")

\* lines 121-128: the text is recognised, and cleanText of it is what the try
\* block returns
Recognize(r) ==
  /\ pc[r] = "recognize"
  /\ worker' = [worker EXCEPT ![r].calls = Append(@, "recognize"),
                              ![r].returns = cleanText(raw[r])]
  /\ pc' = [pc EXCEPT ![r] = "terminate"]
  /\ UNCHANGED <<now, raw, lookups, workersMade, stages, creates,
                 mime, text, llmResponse, analysis, defaultUser,
                 defaultCategory, validTransactions, skipWarnings, validated,
                 document, response, users, categories, documents>>

\* line 121
RecognizeFails(r) == WorkerCallThrows(r, "recognize")

\* the catch returns '' instead of throwing
TerminateSwallowsError(r) ==
  /\ pc[r] = "terminate"
  /\ worker' = [worker EXCEPT ![r].calls = Append(@, "terminate")]
  /\ text' = [text EXCEPT ![r] = IF worker[r].threw THEN <<>> ELSE worker[r].returns]
  /\ pc' = [pc EXCEPT ![r] = "extracted"]
  /\ StageEnds(r, "extract", TRUE)
  /\ UNCHANGED <<now, raw, lookups, workersMade, creates,
                 mime, llmResponse, analysis, defaultUser,
                 defaultCategory, validTransactions, skipWarnings, validated,
                 document, response, users, categories, documents>>

\* lines 132-134, 237-242: the finally block terminates the worker; then
\* extractTextFromFile returns the text or throws what the catch threw
Terminate(r) ==
  /\ pc[r] = "terminate"
  /\ worker' = [worker EXCEPT ![r].calls = Append(@, "terminate")]
  /\ IF worker[r].threw
     THEN /\ Abort(r, "Failed to extract text from document", "")
          /\ StageEnds(r, "extract", FALSE)
          /\ UNCHANGED text
     ELSE /\ text' = [text EXCEPT ![r] = worker[r].returns]
          /\ pc' = [pc EXCEPT ![r] = "extracted"]
          /\ StageEnds(r, "extract", TRUE)
          /\ UNCHANGED response
  /\ UNCHANGED <<now, raw, lookups, workersMade, creates,
                 mime, llmResponse, analysis, defaultUser,
                 defaultCategory, validTransactions, skipWarnings, validated,
                 document, users, categories, documents>>

\* lines 132-134, 239-242: worker.terminate() is called and throws, which
\* takes the place of what the try block returned or threw
TerminateFails(r) ==
  /\ pc[r] = "terminate"
  /\ worker' = [worker EXCEPT ![r].calls = Append(@, "terminate"),
                              ![r].threw = TRUE]
  /\ Abort(r, "Failed to extract text from document", "")
  /\ StageEnds(r, "extract", FALSE)
  /\ UNCHANGED <<now, raw, lookups, workersMade, creates,
                 mime, text, llmResponse, analysis, defaultUser,
                 defaultCategory, validTransactions, skipWarnings, validated,
                 document, users, categories, documents>>

\* lines 246-249: analyzeFinancialDocument returns
Analyze(r) ==
  /\ pc[r] = "extracted"
  /\ \E a \in {ArrayResponse(b) : b \in Batches} \cup {MalformedResponse} :
       /\ analysis' = [analysis EXCEPT ![r] = a]
       /\ llmResponse' = [llmResponse EXCEPT ![r] = a]
  /\ pc' = [pc EXCEPT ![r] = "analyzed"]
  /\ StageEnds(r, "analyze", TRUE)
  /\ UNCHANGED <<now, raw, lookups, worker, workersMade, creates,
                 mime, text, defaultUser,
                 defaultCategory, validTransactions, skipWarnings, validated,
                 document, response, users, categories, documents>>

\* lines 250-253: analyzeFinancialDocument throws
AnalyzeFails(r) ==
  /\ pc[r] = "extracted"
  /\ Abort(r, "Failed to analyze document", "")
  /\ StageEnds(r, "analyze", FALSE)
  /\ UNCHANGED <<now, raw, lookups, worker, workersMade, creates,
                 mime, text, llmResponse, analysis, defaultUser,
                 defaultCategory, validTransactions, skipWarnings, validated,
                 document, users, categories, documents>>

\* the Persistence Store refuses a second User row with the same email
UserEmailTaken == FindFirstUser # {}

\* the Persistence Store refuses a second Category row with the same
\* (userId, name)
CategoryNameTaken(userId) == FindFirstCategory(userId) # {}

\* lines 277, 326: the message of an error of the store that is no
\* uniqueness conflict
StoreError == "Can't reach database server"

\* line 305: what the message of the store's error contains when a create
\* breaks a uniqueness constraint
UniqueConstraint == "Unique constraint"

\* lines 259-265: the default user is looked up
FindUser(r) ==
  /\ pc[r] = "analyzed"
  /\ IF FindFirstUser # {}
     THEN /\ \E u \in FindFirstUser :
               defaultUser' = [defaultUser EXCEPT ![r] = u.id]
          /\ pc' = [pc EXCEPT ![r] = "findCategory"]
     ELSE /\ pc' = [pc EXCEPT ![r] = "createUser"]
          /\ UNCHANGED defaultUser
  /\ UNCHANGED <<now, raw, lookups, worker, workersMade, stages, creates,
                 mime, text, llmResponse, analysis,
                 defaultCategory, validTransactions, skipWarnings, validated,
                 document, response, users, categories, documents>>

\* lines 267-272: the default user is created
CreateUser(r) ==
  /\ pc[r] = "createUser"
  /\ ~UserEmailTaken
  /\ LET id == Cardinality(users) + 1
     IN /\ users' = users \cup {[id |-> id, email |-> DefaultEmail]}
        /\ defaultUser' = [defaultUser EXCEPT ![r] = id]
  /\ pc' = [pc EXCEPT ![r] = "findCategory"]
  /\ UNCHANGED <<now, raw, lookups, worker, workersMade, stages, creates,
                 mime, text, llmResponse, analysis,
                 defaultCategory, validTransactions, skipWarnings, validated,
                 document, response, categories, documents>>

\* lines 275-278: a user query throws
UserFails(r) ==
  /\ pc[r] \in {"analyzed", "createUser"}
  /\ Abort(r, "Failed to create default user", StoreError)
  /\ UNCHANGED <<now, raw, lookups, worker, workersMade, stages, creates,
                 mime, text, llmResponse, analysis, defaultUser,
                 defaultCategory, validTransactions, skipWarnings, validated,
                 document, users, categories, documents>>

\* lines 267-278: another request has created the default user since the
\* lookup, so the create throws, and the catch throws anew with its message
CreateUserConflict(r) ==
  /\ pc[r] = "createUser"
  /\ UserEmailTaken
  /\ Abort(r, "Failed to create default user", UniqueConstraint)
  /\ UNCHANGED <<now, raw, lookups, worker, workersMade, stages, creates,
                 mime, text, llmResponse, analysis, defaultUser,
                 defaultCategory, validTransactions, skipWarnings, validated,
                 document, users, categories, documents>>

\* lines 285, 298, 307: prisma.category.findFirst ("find") or
\* prisma.category.create ("create") is called by request r
CategoryCall(r, call) == lookups' = [lookups EXCEPT ![r] = Append(@, call)]

\* lines 285-293: the default category of the default user is looked up
FindCategory(r) ==
  /\ pc[r] = "findCategory"
  /\ IF FindFirstCategory(defaultUser[r]) # {}
     THEN /\ \E c \in FindFirstCategory(defaultUser[r]) :
               defaultCategory' = [defaultCategory EXCEPT ![r] = c.id]
          /\ pc' = [pc EXCEPT ![r] = "persist"]
     ELSE /\ pc' = [pc EXCEPT ![r] = "createCategory"]
          /\ UNCHANGED defaultCategory
  /\ CategoryCall(r, "find")
  /\ UNCHANGED <<now, raw, worker, workersMade, stages, creates,
                 mime, text, llmResponse, analysis, defaultUser,
                 validTransactions, skipWarnings, validated,
                 document, response, users, categories, documents>>

\* lines 296-302: the default category is created
CreateCategory(r) ==
  /\ pc[r] = "createCategory"
  /\ ~CategoryNameTaken(defaultUser[r])
  /\ LET id == Cardinality(categories) + 1
     IN /\ categories' = categories \cup
             {[id |-> id, userId |-> defaultUser[r], name |-> Uncategorized,
               type |-> EXPENSE]}
        /\ defaultCategory' = [defaultCategory EXCEPT ![r] = id]
  /\ pc' = [pc EXCEPT ![r] = "persist"]
  /\ CategoryCall(r, "create")
  /\ UNCHANGED <<now, raw, worker, workersMade, stages, creates,
                 mime, text, llmResponse, analysis, defaultUser,
                 validTransactions, skipWarnings, validated,
                 document, response, users, documents>>

\* lines 313-315, 324-327: a category query throws
CategoryFails(r) ==
  /\ pc[r] \in {"findCategory", "createCategory", "refindCategory"}
  /\ Abort(r, "Failed to create default category", StoreError)
  /\ CategoryCall(r, IF pc[r] = "createCategory" THEN "create" ELSE "find")
  /\ UNCHANGED <<now, raw, worker, workersMade, stages, creates,
                 mime, text, llmResponse, analysis, defaultUser,
                 defaultCategory, validTransactions, skipWarnings, validated,
                 document, users, categories, documents>>

\* the inner catch throws the error of the create again
CreateCategoryConflictRethrown(r) ==
  /\ pc[r] = "createCategory"
  /\ CategoryNameTaken(defaultUser[r])
  /\ Abort(r, "Failed to create default category", UniqueConstraint)
  /\ CategoryCall(r, "create")
  /\ UNCHANGED <<now, raw, worker, workersMade, stages, creates,
                 mime, text, llmResponse, analysis, defaultUser,
                 defaultCategory, validTransactions, skipWarnings, validated,
                 document, users, categories, documents>>

\* lines 296-306: another request has created the default category since
\* the lookup, so the create throws, and the inner catch goes on to look the
\* category up again
CreateCategoryConflict(r) ==
  /\ pc[r] = "createCategory"
  /\ CategoryNameTaken(defaultUser[r])
  /\ pc' = [pc EXCEPT ![r] = "refindCategory"]
  /\ CategoryCall(r, "create")
  /\ UNCHANGED <<now, raw, worker, workersMade, stages, creates,
                 mime, text, llmResponse, analysis, defaultUser,
                 defaultCategory, validTransactions, skipWarnings, validated,
                 document, response, users, categories, documents>>

\* lines 307-312, 319-322: the second lookup of the default category
RefindCategory(r) ==
  /\ pc[r] = "refindCategory"
  /\ IF FindFirstCategory(defaultUser[r]) # {}
     THEN /\ \E c \in FindFirstCategory(defaultUser[r]) :
               defaultCategory' = [defaultCategory EXCEPT ![r] = c.id]
          /\ pc' = [pc EXCEPT ![r] = "persist"]
          /\ UNCHANGED response
     ELSE /\ Abort(r, "Failed to create default category",
                   "Failed to get or create default category")
          /\ UNCHANGED defaultCategory
  /\ CategoryCall(r, "find")
  /\ UNCHANGED <<now, raw, worker, workersMade, stages, creates,
                 mime, text, llmResponse, analysis, defaultUser,
                 validTransactions, skipWarnings, validated,
                 document, users, categories, documents>>

\* lines 337-409: the validation pass runs over analysis.transactions
RunValidation(r) ==
  LET batch == analysis[r].transactions
  IN /\ analysis' = [analysis EXCEPT
                       ![r].transactions = CandidatesAfterFilter(batch, now)]
     /\ validTransactions' = [validTransactions EXCEPT ![r] =
          ValidTransactions(batch, now, defaultCategory[r], defaultUser[r])]
     /\ skipWarnings' = [skipWarnings EXCEPT ![r] = SkipWarnings(batch)]
     /\ validated' = [validated EXCEPT ![r] = TRUE]

\* lines 411-425: the Document row prisma.document.create inserts
NewDocument(userId, nested, transactions) ==
  [id |-> Cardinality(documents) + 1, status |-> "COMPLETED", userId |-> userId,
   nested |-> nested, transactions |-> transactions]

\* lines 412, 432: prisma.document.create is called by request r, with the
\* transactions nested in the Document ("nested") or without any ("alone")
DocumentCreate(r, how) == creates' = [creates EXCEPT ![r] = Append(@, how)]

\* lines 449-455: the handler answers 200
Reply(r, doc) ==
  response' = [response EXCEPT ![r] =
    [status |-> 200, error |-> "", cause |-> "",
     transactions |-> IF doc.nested /\ Len(doc.transactions) > 0
                      THEN doc.transactions ELSE <<>>]]

\* lines 332-426, 449-455: the validation pass, then the Document is created
\* with its Transactions in one unit, and the handler answers
PersistFull(r) ==
  /\ pc[r] = "persist"
  /\ analysis[r].isArray
  /\ RunValidation(r)
  /\ LET doc == NewDocument(defaultUser[r], TRUE, validTransactions'[r])
     IN /\ documents' = documents \cup {doc}
        /\ document' = [document EXCEPT ![r] = doc]
        /\ Reply(r, doc)
  /\ DocumentCreate(r, "nested")
  /\ StageEnds(r, "persist", TRUE)
  /\ pc' = [pc EXCEPT ![r] = "done"]
  /\ UNCHANGED <<now, raw, lookups, worker, workersMade,
                 mime, text, llmResponse, defaultUser, defaultCategory,
                 users, categories>>

\* the outer catch throws instead of trying the Document alone
PersistFullFailsAborts(r) ==
  /\ pc[r] = "persist"
  /\ analysis[r].isArray
  /\ RunValidation(r)
  /\ DocumentCreate(r, "nested")
  /\ Abort(r, PersistFailure, "")
  /\ StageEnds(r, "persist", FALSE)
  /\ UNCHANGED <<now, raw, lookups, worker, workersMade,
                 mime, text, llmResponse, defaultUser, defaultCategory,
                 document, users, categories, documents>>

\* lines 332-431: the validation pass, then prisma.document.create throws
PersistFullFails(r) ==
  /\ pc[r] = "persist"
  /\ analysis[r].isArray
  /\ RunValidation(r)
  /\ DocumentCreate(r, "nested")
  /\ pc' = [pc EXCEPT ![r] = "fallback"]
  /\ UNCHANGED <<now, raw, lookups, worker, workersMade, stages,
                 mime, text, llmResponse, defaultUser, defaultCategory,
                 document, response, users, categories, documents>>

\* lines 337-338, 427-431: analysis.transactions is no array, so calling its
\* filter throws inside the try
ValidationThrows(r) ==
  /\ pc[r] = "persist"
  /\ ~analysis[r].isArray
  /\ pc' = [pc EXCEPT ![r] = "fallback"]
  /\ UNCHANGED <<now, raw, lookups, worker, workersMade, stages, creates,
                 mime, text, llmResponse, analysis, defaultUser,
                 defaultCategory, validTransactions, skipWarnings, validated,
                 document, response, users, categories, documents>>

\* lines 431-442, 449-455: the Document is created without transactions, and
\* the handler answers
PersistDocumentOnly(r) ==
  /\ pc[r] = "fallback"
  /\ LET doc == NewDocument(defaultUser[r], FALSE, <<>>)
     IN /\ documents' = documents \cup {doc}
        /\ document' = [document EXCEPT ![r] = doc]
        /\ Reply(r, doc)
  /\ DocumentCreate(r, "alone")
  /\ StageEnds(r, "persist", TRUE)
  /\ pc' = [pc EXCEPT ![r] = "done"]
  /\ UNCHANGED <<now, raw, lookups, worker, workersMade,
                 mime, text, llmResponse, analysis, defaultUser,
                 defaultCategory, validTransactions, skipWarnings, validated,
                 users, categories>>

\* lines 443-446: the second prisma.document.create throws too
PersistDocumentOnlyFails(r) ==
  /\ pc[r] = "fallback"
  /\ Abort(r, PersistFailure, "")
  /\ DocumentCreate(r, "alone")
  /\ StageEnds(r, "persist", FALSE)
  /\ UNCHANGED <<now, raw, lookups, worker, workersMade,
                 mime, text, llmResponse, analysis, defaultUser,
                 defaultCategory, validTransactions, skipWarnings, validated,
                 document, users, categories, documents>>

(***************************************************************************)
(* Specifications                                                          *)
(***************************************************************************)
TheUser == [id |-> 1, email |-> DefaultEmail]
TheCategory == [id |-> 1, userId |-> 1, name |-> Uncategorized, type |-> EXPENSE]

\* the stages of a request whose file is stored
Stored == <<[stage |-> "store", ok |-> TRUE]>>

\* the stages of a request whose file is analyzed
Analyzed == Stored \o <<[stage |-> "extract", ok |-> TRUE],
                       [stage |-> "analyze", ok |-> TRUE]>>

\* what every specification starts from: no request has got anywhere
InitLocals ==
  /\ text = [r \in Requests |-> <<>>]
  /\ creates = [r \in Requests |-> <<>>]
  /\ lookups = [r \in Requests |-> <<>>]
  /\ llmResponse = [r \in Requests |-> NoResponse]
  /\ analysis = [r \in Requests |-> NoResponse]
  /\ defaultUser = [r \in Requests |-> 0]
  /\ defaultCategory = [r \in Requests |-> 0]
  /\ validTransactions = [r \in Requests |-> <<>>]
  /\ skipWarnings = [r \in Requests |-> 0]
  /\ validated = [r \in Requests |-> FALSE]
  /\ document = [r \in Requests |-> NoDocument]
  /\ response = [r \in Requests |-> NoReply]
  /\ documents = {}

\* the uploaded files: images with the text the OCR engine reads in them, a
\* PDF, and a file of another type
Files ==
  {[mime |-> "image", raw |-> q] : q \in RawTexts}
    \cup {[mime |-> "pdf", raw |-> <<>>], [mime |-> "other", raw |-> <<>>]}

\* one upload request r1, against a store that holds the default rows or not
Init ==
  /\ now \in Clocks
  /\ pc = [r \in Requests |-> IF r = "r1" THEN "received" ELSE "none"]
  /\ \E f \in Files :
       /\ mime = [r \in Requests |-> IF r = "r1" THEN f.mime ELSE ""]
       /\ raw = [r \in Requests |-> IF r = "r1" THEN f.raw ELSE <<>>]
  /\ worker = [r \in Requests |-> NoWorker]
  /\ workersMade = 0
  /\ stages = [r \in Requests |-> <<>>]
  /\ \E db \in {<<{}, {}>>, <<{TheUser}, {}>>, <<{TheUser}, {TheCategory}>>} :
       users = db[1] /\ categories = db[2]
  /\ InitLocals

Next ==
  \E r \in Requests :
    \/ SaveFile(r) \/ SaveFileFails(r)
    \/ ExtractPdf(r) \/ ExtractUnsupported(r)
    \/ CreateWorker(r) \/ CreateWorkerFails(r)
    \/ Reinitialize(r) \/ ReinitializeFails(r)
    \/ SetParameters(r) \/ SetParametersFails(r)
    \/ Recognize(r) \/ RecognizeFails(r)
    \/ Terminate(r) \/ TerminateFails(r)
    \/ Analyze(r) \/ AnalyzeFails(r)
    \/ FindUser(r) \/ CreateUser(r) \/ UserFails(r)
    \/ FindCategory(r) \/ CreateCategory(r) \/ CategoryFails(r)
    \/ PersistFull(r) \/ PersistFullFails(r) \/ ValidationThrows(r)
    \/ PersistDocumentOnly(r) \/ PersistDocumentOnlyFails(r)

Spec == Init /\ [][Next]_vars

\* the batches the validation pass is tried on: the batches above, and every
\* single candidate
ValidateBatches == Batches \cup {<<c>> : c \in AllCandidates}

\* request r1 at line 332, with its default user and category at hand and any
\* of the batches as analysis.transactions
InitValidate ==
  /\ now \in Clocks
  /\ pc = [r \in Requests |-> IF r = "r1" THEN "persist" ELSE "none"]
  /\ mime = [r \in Requests |-> IF r = "r1" THEN "pdf" ELSE ""]
  /\ raw = [r \in Requests |-> <<>>]
  /\ text = [r \in Requests |-> <<>>]
  /\ worker = [r \in Requests |-> NoWorker]
  /\ workersMade = 0
  /\ stages = [r \in Requests |-> IF r = "r1" THEN Analyzed ELSE <<>>]
  /\ creates = [r \in Requests |-> <<>>]
  /\ lookups = [r \in Requests |-> IF r = "r1" THEN <<"find">> ELSE <<>>]
  /\ \E b \in ValidateBatches :
       /\ llmResponse = [r \in Requests |->
            IF r = "r1" THEN ArrayResponse(b) ELSE NoResponse]
       /\ analysis = llmResponse
  /\ defaultUser = [r \in Requests |-> IF r = "r1" THEN TheUser.id ELSE 0]
  /\ defaultCategory = [r \in Requests |-> IF r = "r1" THEN TheCategory.id ELSE 0]
  /\ validTransactions = [r \in Requests |-> <<>>]
  /\ skipWarnings = [r \in Requests |-> 0]
  /\ validated = [r \in Requests |-> FALSE]
  /\ document = [r \in Requests |-> NoDocument]
  /\ response = [r \in Requests |-> NoReply]
  /\ users = {TheUser}
  /\ categories = {TheCategory}
  /\ documents = {}

NextValidate ==
  \E r \in Requests :
    \/ PersistFull(r) \/ PersistFullFails(r)
    \/ PersistDocumentOnly(r) \/ PersistDocumentOnlyFails(r)

SpecValidate == InitValidate /\ [][NextValidate]_vars

\* the entries of the table whose pattern is a garbled word or phrase: those
\* after the single characters of lines 29-36
PhraseEntries == {e \in 1..Len(replacements) : Len(replacements[e][1]) > 1}

\* the bank statement heading "Account Summary Royal Bank" as the OCR engine
\* garbles it
CleanInputExample ==
  <<"A", "c", "c", "0", "u", "n", "7", "5", "u", "m", "m", "a", "r", "y", " ",
    "R", "0", "y", "a", "1", " ", "8", "a", "n", "k">>

\* date phrases, "month day, year" and "day month, year", as line 98 and
\* line 99 look for them
DatePhrases ==
  {<<"M", "a", "y", " ", "4", ",", " ", "2", "0", "2", "3">>,
   <<"M", "a", "y", " ", "1", "4", ",", " ", " ", "2", "0", "2", "3">>,
   <<"4", " ", "M", "a", "y", ",", " ", "2", "0", "2", "3">>,
   <<"1", "4", " ", "M", "a", "y", ",", "\n", "2", "0", "2", "3">>}

\* texts of account numbers in the shapes of lines 102-103, one to a line or
\* with a space between
DigitGroupTexts ==
  {<<"1", "2", "3", "4", "-", "5", "6", "7", "-", "8", "9", "0">>,
   <<"1", "2", "3", "-", "4", "5", "6", "7", "-", "8", "9", "0", "1">>,
   <<"1", "2", "3", "4", "-", "5", "6", "7", "-", "8", "9", "0", " ",
     "1", "2", "3", "-", "4", "5", "6", "7", "-", "8", "9", "0", "1">>,
   <<"1", "2", "3", "-", "4", "5", "6", "7", "-", "8", "9", "0", "1",
     "\n", "1", "2", "3", "4", "-", "5", "6", "7", "-", "8", "9", "0">>,
   <<"1", "2", "3", "4", "-", "5", "6", "7", "-", "8", "9", "0", " ",
     "1", "2", "3", "-", "4", "5", "6", "7", "-", "8", "9", "0", "1",
     " ", "1", "2", "3", "4", "-", "5", "6", "7", "-", "8", "9", "0">>,
   <<"5", "7", "5", "0", "-", "2", "5", "7", "-", "0", "5", "7">>}

\* the texts cleanText is tried on: every garbled form of the table alone,
\* every garbled form twice with a space between, and texts with the spacing,
\* the dates and the account numbers that lines 92-103 rewrite
CleanInputs ==
  {replacements[e][1] : e \in PhraseEntries}
    \cup {replacements[e][1] \o <<" ">> \o replacements[e][1] : e \in PhraseEntries}
    \cup DatePhrases \cup DigitGroupTexts \cup
  {CleanInputExample,
   <<"I", "N", "5", "U", "R", " ", "I", "N", "5">>,
   <<"1", " ", "2", " ", "3">>,
   <<"J", "u", "1", "y", " ", "4", ",", " ", " ", "2", "0", "2", "3">>,
   <<"4", " ", "J", "u", "1", "y", ",", " ", " ", " ", "2", "0", "2", "3">>,
   <<"1", "2", "3", "4", " ", "-", " ", "5", "6", "7", " ", "-", " ", " ",
     "8", "9", "0">>,
   <<"1", "2", "3", "-", "4", "5", "6", "7", " ", "-", " ", "8", "9", "0",
     "1">>,
   <<"3", ".", " ", " ", "5", ",", " ", "7">>,
   <<"a", " ", "1", " ", "b", " ", "2">>}

\* request r1 at line 121, its image stored and its worker ready, with any of
\* the texts above in the image
InitClean ==
  /\ now \in Clocks
  /\ pc = [r \in Requests |-> IF r = "r1" THEN "recognize" ELSE "none"]
  /\ mime = [r \in Requests |-> IF r = "r1" THEN "image" ELSE ""]
  /\ \E q \in CleanInputs :
       raw = [r \in Requests |-> IF r = "r1" THEN q ELSE <<>>]
  /\ users = {TheUser}
  /\ categories = {TheCategory}
  /\ worker = [r \in Requests |->
       IF r = "r1"
       THEN [NoWorker EXCEPT !.id = 1, !.calls = <<"reinitialize", "setParameters">>]
       ELSE NoWorker]
  /\ workersMade = 1
  /\ stages = [r \in Requests |-> IF r = "r1" THEN Stored ELSE <<>>]
  /\ InitLocals

NextClean ==
  \E r \in Requests :
    \/ Recognize(r) \/ RecognizeFails(r)
    \/ Terminate(r) \/ TerminateFails(r)

SpecClean == InitClean /\ [][NextClean]_vars

\* two upload requests at line 237, the file of each stored
InitExtract ==
  /\ now \in Clocks
  /\ pc = [r \in Requests |-> "stored"]
  /\ \E f \in [Requests -> Files] :
       /\ mime = [r \in Requests |-> f[r].mime]
       /\ raw = [r \in Requests |-> f[r].raw]
  /\ worker = [r \in Requests |-> NoWorker]
  /\ workersMade = 0
  /\ stages = [r \in Requests |-> Stored]
  /\ users = {TheUser}
  /\ categories = {TheCategory}
  /\ InitLocals

NextExtract ==
  \E r \in Requests :
    \/ ExtractPdf(r) \/ ExtractUnsupported(r)
    \/ CreateWorker(r) \/ CreateWorkerFails(r)
    \/ Reinitialize(r) \/ ReinitializeFails(r)
    \/ SetParameters(r) \/ SetParametersFails(r)
    \/ Recognize(r) \/ RecognizeFails(r)
    \/ Terminate(r) \/ TerminateFails(r)

SpecExtract == InitExtract /\ [][NextExtract]_vars

\* two upload requests at line 259, the document of each analyzed, against a
\* store that holds the default rows or not
InitLookup ==
  /\ now \in Clocks
  /\ pc = [r \in Requests |-> "analyzed"]
  /\ mime = [r \in Requests |-> "pdf"]
  /\ raw = [r \in Requests |-> <<>>]
  /\ worker = [r \in Requests |-> NoWorker]
  /\ workersMade = 0
  /\ stages = [r \in Requests |-> Analyzed]
  /\ \E db \in {<<{}, {}>>, <<{TheUser}, {}>>, <<{TheUser}, {TheCategory}>>} :
       users = db[1] /\ categories = db[2]
  /\ InitLocals

NextLookup ==
  \E r \in Requests :
    \/ FindUser(r) \/ CreateUser(r) \/ CreateUserConflict(r) \/ UserFails(r)
    \/ FindCategory(r) \/ CreateCategory(r) \/ CreateCategoryConflict(r)
    \/ RefindCategory(r) \/ CategoryFails(r)

SpecLookup == InitLookup /\ [][NextLookup]_vars

(***************************************************************************)
(* Properties of the validation pass.  They are stated against the LLM     *)
(* response as it was received (llmResponse), with the claim's own reading *)
(* of which candidates survive.                                            *)
(***************************************************************************)
\* a value that is of number type and not NaN
NumericNotNaN(v) == v.t = "number" /\ v.k # "nan"
HasNumericAmount(tx) == NumericNotNaN(tx.amount)

\* the candidates of the received batch that have a numeric, non-NaN amount
Survivors(r) == SelectSeq(llmResponse[r].transactions, HasNumericAmount)

Received(r) == llmResponse[r].transactions

\* C1: whatever batch the LLM returned, the list the validation pass produces
\* is never empty, and when no candidate has a numeric non-NaN amount it is
\* exactly one element, the placeholder.
C1_AcceptedNeverEmpty ==
  \A r \in Requests : validated[r] =>
    /\ Len(validTransactions[r]) >= 1
    /\ Survivors(r) = <<>> =>
         /\ Len(validTransactions[r]) = 1
         /\ validTransactions[r][1].description = DefaultDescription

\* a non-empty batch of which every candidate was dropped
C1_Witness ==
  \E r \in Requests :
    /\ validated[r]
    /\ Len(Received(r)) = MaxBatch
    /\ Survivors(r) = <<>>
    /\ Len(validTransactions[r]) = 1

\* C2: a candidate is accepted if and only if its amount is of number type
\* and not NaN: the accepted transactions are, one for one, the candidates
\* with such an amount, whatever their other fields hold, and no candidate
\* with another amount is among them.
C2_AcceptedIffNumericAmount ==
  \A r \in Requests : validated[r] =>
    IF Survivors(r) = <<>>
    THEN validTransactions[r][1].description = DefaultDescription
    ELSE /\ Len(validTransactions[r]) = Len(Survivors(r))
         /\ \A j \in 1..Len(Survivors(r)) :
              validTransactions[r][j].amount = Survivors(r)[j].amount

\* a candidate with a numeric amount and every other field malformed is
\* accepted, next to a candidate dropped for its NaN amount
C2_Witness ==
  \E r \in Requests :
    /\ validated[r]
    /\ Len(Received(r)) = 2
    /\ Received(r)[1].amount = NaN
    /\ Received(r)[2] = Cand(Num(Dec(7, 0)), Undef, Null,
                             Str(Rep("x", DescriptionLimit + 1)))
    /\ Len(validTransactions[r]) = 1
    /\ validTransactions[r][1].amount = Num(Dec(7, 0))

\* C3: a candidate whose amount is a numeric-looking string is coerced to
\* that number before the drop decision, so it is accepted with the number.
C3_StringAmountCoerced ==
  \A r \in Requests : validated[r] =>
    \A i \in 1..Len(Received(r)) :
      LET a == Received(r)[i].amount
      IN (a.t = "string" /\ ~IsNaN(ParseFloat(a))) =>
           \E j \in 1..Len(validTransactions[r]) :
             /\ validTransactions[r][j].amount = ParseFloat(a)
             /\ validTransactions[r][j].description # DefaultDescription

\* C4: every transaction handed to the Persistence Store has a finite,
\* non-negative amount.
C4_AmountsFiniteNonNegative ==
  \A r \in Requests : validated[r] =>
    \A j \in 1..Len(validTransactions[r]) :
      /\ validTransactions[r][j].amount.k = "fin"
      /\ validTransactions[r][j].amount.n >= 0

\* C5: every accepted transaction has type INCOME or EXPENSE: a candidate
\* typed exactly INCOME or EXPENSE keeps its type, a candidate with any other
\* type value is accepted with type EXPENSE, and none is dropped for its type.
C5_TypeInEnum ==
  \A r \in Requests : validated[r] =>
    /\ \A j \in 1..Len(validTransactions[r]) :
         validTransactions[r][j].type \in {INCOME, EXPENSE}
    /\ Survivors(r) # <<>> =>
         /\ Len(validTransactions[r]) = Len(Survivors(r))
         /\ \A j \in 1..Len(Survivors(r)) :
              validTransactions[r][j].type =
                IF Survivors(r)[j].type = Str(INCOME) THEN INCOME ELSE EXPENSE

\* an INCOME candidate keeps its type next to a candidate of unknown type
\* that is accepted as EXPENSE
C5_Witness ==
  \E r \in Requests :
    /\ validated[r]
    /\ Len(Survivors(r)) = 2
    /\ Survivors(r)[1].type = Str(INCOME)
    /\ Survivors(r)[2].type = Str(<<"X", "Y", "Z">>)
    /\ validTransactions[r][1].type = INCOME
    /\ validTransactions[r][2].type = EXPENSE

\* the date the claim expects for a candidate: the parsed date of a string
\* that parses, the current processing day for everything else
ExpectedDay(tx) ==
  IF tx.date.t = "string" /\ ParseDate(tx.date.s).valid
  THEN ParseDate(tx.date.s).day
  ELSE now.day

\* C6: for every candidate that is not dropped, a date that is absent, of a
\* wrong type or unparseable gives the current processing date, any other
\* date gives the parsed date, and the accepted date is always valid.
C6_DateFallsBackToToday ==
  \A r \in Requests : (validated[r] /\ Survivors(r) # <<>>) =>
    \A j \in 1..Len(Survivors(r)) :
      /\ validTransactions[r][j].date.valid
      /\ validTransactions[r][j].date.day = ExpectedDay(Survivors(r)[j])

\* the description the claim expects for a candidate
ExpectedDescription(tx) ==
  IF tx.description.t = "string" /\ Len(tx.description.s) > 0
  THEN SubSeq(tx.description.s, 1, Min(Len(tx.description.s), 255))
  ELSE UnnamedDescription

\* C7: every accepted transaction has a non-empty description of at most 255
\* characters: a missing, non-string or empty description is replaced by the
\* fixed placeholder string, a longer one is cut to its first 255 characters.
C7_DescriptionBounded ==
  \A r \in Requests : validated[r] =>
    /\ \A j \in 1..Len(validTransactions[r]) :
         /\ Len(validTransactions[r][j].description) >= 1
         /\ Len(validTransactions[r][j].description) <= 255
    /\ Survivors(r) # <<>> =>
         \A j \in 1..Len(Survivors(r)) :
           validTransactions[r][j].description =
             ExpectedDescription(Survivors(r)[j])

\* a description of 256 characters is accepted cut to 255
C7_Witness ==
  \E r \in Requests :
    /\ validated[r]
    /\ Len(Survivors(r)) >= 1
    /\ Survivors(r)[1].description.t = "string"
    /\ Len(Survivors(r)[1].description.s) = 256
    /\ Len(validTransactions[r][1].description) = 255

\* C8: the placeholder is added if and only if no candidate survives; the
\* result is then exactly one transaction with the fixed description, the
\* nominal amount, type EXPENSE, the current date, the default category and
\* the default user, and every candidate of the batch was counted as dropped.
C8_PlaceholderIffNoneSurvive ==
  \A r \in Requests : validated[r] =>
    IF Survivors(r) = <<>>
    THEN /\ validTransactions[r] =
              <<[date |-> now,
                 description |-> DefaultDescription,
                 amount |-> Num(Dec(100, 0)),
                 type |-> EXPENSE,
                 categoryId |-> defaultCategory[r],
                 userId |-> defaultUser[r]]>>
         /\ skipWarnings[r] = Len(Received(r))
    ELSE /\ Len(validTransactions[r]) = Len(Survivors(r))
         /\ skipWarnings[r] = Len(Received(r)) - Len(Survivors(r))

\* the empty batch gives the placeholder and no dropped candidate
C8_Witness ==
  \E r \in Requests :
    /\ validated[r]
    /\ Received(r) = <<>>
    /\ Len(validTransactions[r]) = 1
    /\ skipWarnings[r] = 0

\* C9: the validation pass leaves every candidate object of the LLM response
\* as it was.
C9_CandidatesUnchanged ==
  \A r \in Requests : validated[r] =>
    analysis[r].transactions = llmResponse[r].transactions

(***************************************************************************)
(* Properties of the Persistence Store                                     *)
(***************************************************************************)
\* C10: every persisted Document owns at least one Transaction.
C10_DocumentHasTransaction ==
  \A d \in documents : Len(d.transactions) >= 1

\* C10, amended: every Document persisted together with its transactions (the
\* first attempt) owns at least one Transaction; only the document-only retry
\* persists a Document that owns none.
C10_NestedDocumentHasTransaction ==
  \A d \in documents : d.nested <=> Len(d.transactions) >= 1

\* a request whose batch had no survivor persisted its Document with the
\* placeholder transaction
C10_Witness ==
  \E r \in Requests :
    /\ pc[r] = "done"
    /\ Received(r) # <<>>
    /\ Survivors(r) = <<>>
    /\ document[r] \in documents
    /\ document[r].nested
    /\ Len(document[r].transactions) = 1

(***************************************************************************)
(* Properties of the pipeline of one request                               *)
(***************************************************************************)
\* the Document rows of the store are the documents of the requests
DocumentsOfRequests == {document[r] : r \in Requests} \ {NoDocument}

\* C11: when the create of the Document with its Transactions fails, the
\* request goes on to exactly one create of the Document alone, and to
\* nothing else; when that one succeeds the request answers 200 with an empty
\* transaction list and its Document owns no transaction; the request aborts
\* with the persistence failure only after that second create has failed, and
\* then no Document is persisted.
C11_RetriesOnceDocumentAlone ==
  /\ documents = DocumentsOfRequests
  /\ \A r \in Requests :
       /\ creates[r] \in {<<>>, <<"nested">>, <<"alone">>, <<"nested", "alone">>}
       /\ creates[r] = <<"nested">> =>
            \/ pc[r] = "fallback" /\ document[r] = NoDocument
            \/ pc[r] = "done" /\ document[r].nested
       /\ creates[r] = <<"nested", "alone">> =>
            \/ /\ pc[r] = "done"
               /\ response[r].status = 200
               /\ response[r].transactions = <<>>
               /\ document[r] \in documents
               /\ document[r].transactions = <<>>
            \/ /\ pc[r] = "failed"
               /\ response[r].status = 500
               /\ response[r].error = PersistFailure
               /\ document[r] = NoDocument
       /\ response[r].error = PersistFailure =>
            /\ creates[r] # <<>>
            /\ creates[r][Len(creates[r])] = "alone"
            /\ document[r] = NoDocument

\* the first create failed and the second succeeded
C11_Witness ==
  \E r \in Requests :
    /\ pc[r] = "done"
    /\ creates[r] = <<"nested", "alone">>
    /\ llmResponse[r].isArray
    /\ Len(validTransactions[r]) >= 1
    /\ response[r].status = 200
    /\ response[r].transactions = <<>>

StageOrder == <<"store", "extract", "analyze", "persist">>

\* C12: the stages of a request end in the order store, extract, analyze,
\* persist, each after the one before it has succeeded; once the store, the
\* extract or the analyze stage has failed, that stage is the last one, the
\* request has answered with an error, no create of a Document was called
\* and no Document is persisted.
C12_StagesInOrder ==
  \A r \in Requests :
    /\ Len(stages[r]) <= Len(StageOrder)
    /\ \A i \in 1..Len(stages[r]) :
         /\ stages[r][i].stage = StageOrder[i]
         /\ i < Len(stages[r]) => stages[r][i].ok
         /\ (~stages[r][i].ok /\ stages[r][i].stage # "persist") =>
              /\ pc[r] = "failed"
              /\ response[r].status = 500
              /\ creates[r] = <<>>
              /\ document[r] = NoDocument
    /\ (Len(stages[r]) < 2 \/ ~stages[r][2].ok) => llmResponse[r] = NoResponse
    /\ (Len(stages[r]) < 1 \/ ~stages[r][1].ok) =>
         worker[r] = NoWorker /\ text[r] = <<>>
    /\ (Len(stages[r]) < 3 \/ ~stages[r][3].ok) =>
         creates[r] = <<>> /\ defaultUser[r] = 0

\* the analyze stage failed after the store and the extract stage succeeded
C12_Witness ==
  \E r \in Requests :
    /\ Len(stages[r]) = 3
    /\ stages[r][1].ok /\ stages[r][2].ok /\ ~stages[r][3].ok
    /\ pc[r] = "failed"
    /\ response[r].status = 500
    /\ documents = {}

\* C13: a response of the LLM service that is malformed at the top level
\* never lets the analyze stage succeed, and no Document is persisted for it.
C13_MalformedResponseAborts ==
  \A r \in Requests :
    (Len(stages[r]) >= 3 /\ ~llmResponse[r].isArray) =>
      /\ ~stages[r][3].ok
      /\ document[r] = NoDocument

\* the text of request r has been extracted without an error
Extracted(r) == Len(stages[r]) >= 2 /\ stages[r][2].ok

\* the extract stage of request r has failed
ExtractFailed(r) == Len(stages[r]) = 2 /\ ~stages[r][2].ok

\* C14: text extraction yields empty text without an error only for a PDF.
C14_EmptyTextOnlyForPdf ==
  \A r \in Requests : (Extracted(r) /\ text[r] = <<>>) => mime[r] = "pdf"

\* C14, amended: text extraction yields text without an error and without
\* the OCR engine only for a PDF, and that text is empty; for an image the
\* text is what cleanText makes of the text the OCR engine recognised, which
\* may be empty, and an error of the OCR engine always aborts the request
\* before any analysis; any other file type aborts the request.
C14_NoOcrOnlyForPdf ==
  \A r \in Requests :
    /\ Extracted(r) =>
         \/ mime[r] = "pdf" /\ worker[r] = NoWorker /\ text[r] = <<>>
         \/ /\ mime[r] = "image"
            /\ ~worker[r].threw
            /\ worker[r].calls =
                 <<"reinitialize", "setParameters", "recognize", "terminate">>
            /\ text[r] = cleanText(raw[r])
    /\ (worker[r].threw /\ pc[r] # "terminate") =>
         /\ ExtractFailed(r)
         /\ pc[r] = "failed"
         /\ response[r].status = 500
         /\ llmResponse[r] = NoResponse
    /\ (mime[r] \notin {"image", "pdf"} /\ Len(stages[r]) >= 2) =>
         /\ ExtractFailed(r)
         /\ pc[r] = "failed"
         /\ response[r].status = 500

\* the OCR engine failed to recognise the text of an image, and the request
\* was aborted
C14_Witness ==
  \E r \in Requests :
    /\ mime[r] = "image"
    /\ worker[r].threw
    /\ worker[r].calls = <<"reinitialize", "setParameters", "recognize", "terminate">>
    /\ ExtractFailed(r)
    /\ pc[r] = "failed"

(***************************************************************************)
(* Properties of concurrent requests                                       *)
(***************************************************************************)
\* the Category rows with the name of the default category that user owns
DefaultCategories(userId) ==
  {c \in categories : c.userId = userId /\ c.name = Uncategorized}

\* C15: whatever the interleaving of two requests that look up and create
\* the default category of one user, at most one Category row with that
\* (userId, name) exists; no request fails because the other one created the
\* row first: the request whose create was refused looks the row up again;
\* and every request that has gone on to persist uses the id of that row.
C15_OneDefaultCategory ==
  /\ \A u \in users : Cardinality(DefaultCategories(u.id)) <= 1
  /\ \A r \in Requests :
       /\ pc[r] = "refindCategory" => DefaultCategories(defaultUser[r]) # {}
       /\ pc[r] = "persist" =>
            DefaultCategories(defaultUser[r]) =
              {c \in categories : c.id = defaultCategory[r]}
       /\ response[r].error = "Failed to create default category" =>
            response[r].cause = StoreError

\* both requests found no default category; the create of one was refused,
\* and it has found the row the other one created
C15_Witness ==
  \E r1, r2 \in Requests :
    /\ r1 # r2
    /\ pc[r1] = "persist"
    /\ pc[r2] = "persist"
    /\ defaultUser[r1] = defaultUser[r2]
    /\ defaultCategory[r1] = defaultCategory[r2]
    /\ lookups[r2] = <<"find", "create", "find">>
    /\ Cardinality(categories) = 1

\* C16: whatever the interleaving of two requests that look up and create
\* the default user, no request fails because the other one created the row
\* first, and the requests that have gone on use one and the same User row.
C16_NoUserConflictFailure ==
  /\ \A r \in Requests : response[r].cause # UniqueConstraint
  /\ \A r1, r2 \in Requests :
       (defaultUser[r1] # 0 /\ defaultUser[r2] # 0) =>
         defaultUser[r1] = defaultUser[r2]

\* the number of times terminate was called on the worker of request r
Terminations(r) ==
  Cardinality({i \in 1..Len(worker[r].calls) : worker[r].calls[i] = "terminate"})

\* request r is inside the try block of extractTextFromFile, or in its
\* finally block before the call of terminate
InExtraction(r) ==
  pc[r] \in {"reinitialize", "setParameters", "recognize", "terminate"}

\* C17: a worker that was acquired is not terminated while the extraction is
\* under way, and once the extraction has returned or thrown, after the
\* initialisation, the parameter setting or the recognition has failed or
\* after all succeeded, terminate has been called on it exactly once, as the
\* last call; no two requests have the same worker.
C17_WorkerTerminatedOnce ==
  /\ \A r \in Requests :
       IF worker[r].id = 0
       THEN worker[r] = NoWorker /\ ~InExtraction(r)
       ELSE IF InExtraction(r)
            THEN Terminations(r) = 0
            ELSE /\ Terminations(r) = 1
                 /\ worker[r].calls[Len(worker[r].calls)] = "terminate"
                 /\ Len(stages[r]) >= 2
  /\ \A r1, r2 \in Requests :
       (r1 # r2 /\ worker[r1].id # 0) => worker[r1].id # worker[r2].id

\* the extraction of one request has thrown after its recognition failed,
\* that of the other has returned, each with its own worker terminated
C17_Witness ==
  \E r1, r2 \in Requests :
    /\ worker[r1].calls = <<"reinitialize", "setParameters", "recognize", "terminate">>
    /\ worker[r1].threw
    /\ pc[r1] = "failed"
    /\ worker[r2].calls = <<"reinitialize", "setParameters", "recognize", "terminate">>
    /\ ~worker[r2].threw
    /\ pc[r2] = "extracted"
    /\ worker[r1].id # worker[r2].id

(***************************************************************************)
(* Properties of the Document status                                       *)
(***************************************************************************)
\* C18: a Document is in COMPLETED only after it has been in PROCESSING, and
\* in PROCESSING only after it has been in PENDING; a Document in ERROR
\* keeps that status.
C18_StatusMonotonic ==
  [][\A d \in documents' :
       /\ d.status = "COMPLETED" =>
            \E e \in documents :
              e.id = d.id /\ e.status \in {"PROCESSING", "COMPLETED"}
       /\ d.status = "PROCESSING" =>
            \E e \in documents :
              e.id = d.id /\ e.status \in {"PENDING", "PROCESSING"}
       /\ \A e \in documents :
            (e.id = d.id /\ e.status = "ERROR") => d.status = "ERROR"]_vars

(***************************************************************************)
(* Properties of cleanText                                                 *)
(***************************************************************************)
\* the text pat occurs in the text q
Contains(q, pat) == \E i \in 1..Len(q) : MatchesAt(q, i, pat)

AccountSummaryRoyalBank ==
  <<"A", "c", "c", "o", "u", "n", "t", " ", "S", "u", "m", "m", "a", "r", "y",
    " ", "R", "o", "y", "a", "l", " ", "B", "a", "n", "k">>

\* C19: when the text recognised in an image contains the garbled form of a
\* phrase entry of the table, the cleaned text contains the entry's correct
\* spelling; the cleaned text of "Acc0un75ummary R0ya1 8ank" contains
\* "Account Summary Royal Bank".
C19_PhrasesCorrected ==
  \A r \in Requests :
    (pc[r] = "extracted" /\ mime[r] = "image") =>
      /\ \A e \in PhraseEntries :
           Contains(raw[r], replacements[e][1]) =>
             Contains(text[r], replacements[e][2])
      /\ Contains(raw[r], CleanInputExample) =>
           Contains(text[r], AccountSummaryRoyalBank)

\* C20: whatever text is cleaned, of two entries of the table of which the
\* pattern of one is a part of the pattern of the other, the one with the
\* longer pattern comes first in the order in which the table is applied, so
\* that a longer pattern that occurs in the text is not taken apart by the
\* shorter one before its turn.
C20_LongerPatternsFirst ==
  \A r \in Requests :
    (pc[r] = "extracted" /\ mime[r] = "image") =>
      \A i, j \in 1..Len(replacements) :
        (/\ Len(replacements[i][1]) < Len(replacements[j][1])
         /\ Contains(replacements[j][1], replacements[i][1])
         /\ Contains(raw[r], replacements[j][1])) => j < i

\* somewhere in q a character of first and a character of second have
\* nothing but whitespace, and some of it, between them
HasGap(q, first, second) ==
  \E i \in 1..Len(q) :
    LET w == ClassRun(q, i + 1, Spaces)
    IN /\ q[i] \in first
       /\ w >= 1
       /\ i + w + 1 <= Len(q)
       /\ q[i + w + 1] \in second

\* the text of request r after the whitespace-collapsing pass of lines 92-95
AfterSpacing(r) == FixSpacing(ApplyReplacements(raw[r]))

\* C21: whatever text is cleaned, after the whitespace-collapsing pass no
\* whitespace is left between two digits, between '.' or ',' and a digit
\* after it, between a letter and a digit after it, or between a digit and a
\* letter after it.
C21_NoGapAfterSpacing ==
  \A r \in Requests :
    (pc[r] = "extracted" /\ mime[r] = "image") =>
      /\ ~HasGap(AfterSpacing(r), DigitSet, DigitSet)
      /\ ~HasGap(AfterSpacing(r), {".", ","}, DigitSet)
      /\ ~HasGap(AfterSpacing(r), Letters, DigitSet)
      /\ ~HasGap(AfterSpacing(r), DigitSet, Letters)

\* the whole of q is a date phrase that line 98 or line 99 matches
IsDatePhrase(q) ==
  /\ Len(q) > 0
  /\ \/ DayMonthAt(q, 1).len = Len(q)
     \/ MonthDayAt(q, 1).len = Len(q)

\* somewhere in q a comma, one space and a year of four digits follow one
\* another
OneSpaceBeforeYear(q) ==
  \E i \in 1..Len(q) :
    /\ q[i] = ","
    /\ i + 1 <= Len(q)
    /\ q[i + 1] = " "
    /\ ClassRun(q, i + 2, DigitSet) = 4

\* C22: the cleaned text of a date phrase, "day month, year" or "month day,
\* year", has exactly one space between the comma and the year of four
\* digits.
C22_OneSpaceBeforeYear ==
  \A r \in Requests :
    (pc[r] = "extracted" /\ mime[r] = "image" /\ IsDatePhrase(raw[r])) =>
      OneSpaceBeforeYear(text[r])

\* q is made of account numbers in the shape of line 102 or of line 103,
\* without whitespace around their hyphens, and of whitespace between them
IsDigitGroupText(q) ==
  /\ Len(q) > 0
  /\ \A i \in 1..Len(q) :
       /\ q[i] \in DigitSet \cup {"-"} \cup Spaces
       /\ (q[i] \notin Spaces /\ (i = 1 \/ q[i - 1] \in Spaces)) =>
            LET token == ClassRun(q, i, DigitSet \cup {"-"})
            IN \/ GroupsAt(q, i, 4, 3, 3).len = token
               \/ GroupsAt(q, i, 3, 4, 4).len = token

\* C23: the cleaned text of a text made of account numbers in the 4-3-3 or
\* the 3-4-4 shape, without whitespace around the hyphens, is left as it is
\* when it is cleaned again.
C23_IdempotentOnDigitGroups ==
  \A r \in Requests :
    (pc[r] = "extracted" /\ mime[r] = "image" /\ IsDigitGroupText(raw[r])) =>
      cleanText(text[r]) = text[r]

\* three account numbers with a space between them were cleaned, which took
\* the spaces out
C23_Witness ==
  \E r \in Requests :
    /\ pc[r] = "extracted"
    /\ mime[r] = "image"
    /\ IsDigitGroupText(raw[r])
    /\ Len(raw[r]) >= 3 * 12
    /\ Len(text[r]) = Len(raw[r]) - 2
    /\ cleanText(text[r]) = text[r]

(***************************************************************************)
(* Properties of the accepted transactions                                 *)
(***************************************************************************)
\* C24: when at least one candidate of the batch has a numeric, non-NaN
\* amount, the accepted list has one transaction for each such candidate, in
\* the order of the batch, the i-th with the amount of the i-th such
\* candidate as it was received.
C24_SurvivorsInOrder ==
  \A r \in Requests :
    (validated[r] /\ Survivors(r) # <<>>) =>
      /\ Len(validTransactions[r]) = Len(Survivors(r))
      /\ \A i \in 1..Len(validTransactions[r]) :
           validTransactions[r][i].amount = Survivors(r)[i].amount

\* two candidates with different amounts were both accepted
C24_Witness ==
  \E r \in Requests :
    /\ validated[r]
    /\ Len(Survivors(r)) = 2
    /\ Survivors(r)[1].amount # Survivors(r)[2].amount
    /\ Len(validTransactions[r]) = 2
    /\ validTransactions[r][2].amount = Survivors(r)[2].amount

\* C25: every transaction a request hands to the store and every transaction
\* of its persisted Document has the id of the 'Uncategorized' category of
\* the default user and the id of the default user that the request has
\* looked up or created before, whatever category the candidate names.
C25_TransactionsUseDefaults ==
  \A r \in Requests :
    \A list \in {validTransactions[r], document[r].transactions} :
      \A i \in 1..Len(list) :
        /\ list[i].userId = defaultUser[r]
        /\ list[i].categoryId = defaultCategory[r]
        /\ \E u \in users : u.id = defaultUser[r] /\ u.email = DefaultEmail
        /\ \E c \in categories :
             /\ c.id = defaultCategory[r]
             /\ c.userId = defaultUser[r]
             /\ c.name = Uncategorized

\* a candidate that names a category of its own was persisted under the
\* default category, which the request had created
C25_Witness ==
  \E r \in Requests :
    /\ pc[r] = "done"
    /\ document[r] \in documents
    /\ Len(document[r].transactions) = Len(Received(r))
    /\ Len(Received(r)) >= 1
    /\ Received(r)[1].category = Groceries
    /\ lookups[r] = <<"find", "create">>
    /\ document[r].transactions[1].categoryId = defaultCategory[r]

====
